---- MODULE Spec2Model ----
(***************************************************************************)
(* Model of server.py: the hand-rolled fallback for flask routing          *)
(* (_pattern, _compile_route_to_regex, match_flask_route, CustomServer),   *)
(* the static responder send_file, RequestHandler.do_GET and               *)
(* get_content_type.                                                       *)
(*                                                                         *)
(* Python strings are modelled as sequences of one-character strings, so   *)
(* that scanning, slicing, splitting and matching are computed character   *)
(* by character as the code computes them.  Positions are 1-based; an      *)
(* "end" position is the position following the last consumed character.   *)
(***************************************************************************)
EXTENDS Integers, Sequences, FiniteSets, TLC

(***************************************************************************)
(* Characters and character classes of the re module.                      *)
(***************************************************************************)
Digits == {"0", "1", "2", "3", "4", "5", "6", "7", "8", "9"}

LowerLetters == <<"a", "b", "c", "d", "e", "f", "g", "h", "i", "j", "k", "l", "m", "n", "o", "p", "q", "r", "s", "t", "u", "v", "w", "x", "y", "z">>

UpperLetters == <<"A", "B", "C", "D", "E", "F", "G", "H", "I", "J", "K", "L", "M", "N", "O", "P", "Q", "R", "S", "T", "U", "V", "W", "X", "Y", "Z">>

Range(f) == {f[i] : i \in DOMAIN f}

\* \w on ASCII text
IsWordChar(c) == c \in Range(LowerLetters) \cup Range(UpperLetters) \cup Digits \cup {"_"}

HexDigits == Digits \cup {"a", "b", "c", "d", "e", "f", "A", "B", "C", "D", "E", "F"}

\* the character classes used by _pattern and by the converter fragments
InClass(c, cls) ==
    CASE cls = "\\w"   -> IsWordChar(c)
      [] cls = "[^)]"  -> c # ")"
      [] cls = "[^/]"  -> c # "/"
      [] cls = "."     -> c # "\n"
      [] cls = "\\d"   -> c \in Digits
      [] cls = "[0-9a-fA-F]" -> c \in HexDigits

\* end of the longest run of characters of class cls that starts at i
RECURSIVE RunEnd(_, _, _)
RunEnd(s, i, cls) ==
    IF i <= Len(s) /\ InClass(s[i], cls) THEN RunEnd(s, i + 1, cls) ELSE i

\* s[i:j] of the code, for 1-based i and end position j
Slice(s, i, j) == SubSeq(s, i, j - 1)

\* s.startswith(t, pos)
StartsWithAt(s, t, pos) ==
    /\ pos + Len(t) - 1 <= Len(s)
    /\ \A k \in 1..Len(t) : s[pos + k - 1] = t[k]

\* s.endswith(t)
EndsWith(s, t) ==
    /\ Len(t) <= Len(s)
    /\ \A k \in 1..Len(t) : s[Len(s) - Len(t) + k] = t[k]

\* s.split(sep) for a one-character separator
RECURSIVE Split(_, _)
Split(s, sep) ==
    LET i == CHOOSE i \in 1..(Len(s) + 1) :
                 /\ i = Len(s) + 1 \/ s[i] = sep
                 /\ \A k \in 1..(i - 1) : s[k] # sep
    IN  IF i = Len(s) + 1 THEN <<s>>
        ELSE <<Slice(s, 1, i)>> \o Split(SubSeq(s, i + 1, Len(s)), sep)

\* hi, hi-1, ..., lo : the end positions a greedy repetition tries, longest first
Descending(hi, lo) == IF hi < lo THEN <<>> ELSE [k \in 1..(hi - lo + 1) |-> hi - k + 1]

(***************************************************************************)
(* _pattern: "<", optionally a converter name \w+ with an optional        *)
(* parenthesised argument text that contains no ")" and then ":", then     *)
(* the variable name \w+, then ">".                                        *)
(* One match attempt at position i.  conv and args are None in the code    *)
(* when their group did not take part: hasconv / hasargs record that.      *)
(***************************************************************************)
NoPlaceholder == [ok |-> FALSE, start |-> 0, end |-> 0, hasconv |-> FALSE, conv |-> <<>>,
                  hasargs |-> FALSE, args |-> <<>>, var |-> <<>>]

_pattern(route, i) ==
    IF i > Len(route) \/ route[i] # "<" THEN NoPlaceholder
    ELSE
      LET j == RunEnd(route, i + 1, "\\w")
      IN  IF j = i + 1 \/ j > Len(route) THEN NoPlaceholder
          ELSE IF route[j] = ">"
          THEN [ok |-> TRUE, start |-> i, end |-> j + 1, hasconv |-> FALSE, conv |-> <<>>,
                hasargs |-> FALSE, args |-> <<>>, var |-> Slice(route, i + 1, j)]
          ELSE
            LET q == IF route[j] = "(" THEN RunEnd(route, j + 1, "[^)]") ELSE 0
                \* position of the ":" that closes the converter part, 0 if none
                c == IF route[j] = ":" THEN j
                     ELSE IF route[j] = "(" /\ q + 1 <= Len(route) /\ route[q + 1] = ":"
                          THEN q + 1
                          ELSE 0
                k == RunEnd(route, c + 1, "\\w")
            IN  IF c = 0 \/ k = c + 1 \/ k > Len(route) \/ route[k] # ">"
                THEN NoPlaceholder
                ELSE [ok |-> TRUE, start |-> i, end |-> k + 1,
                      hasconv |-> TRUE, conv |-> Slice(route, i + 1, j),
                      hasargs |-> route[j] = "(",
                      args |-> IF route[j] = "(" THEN Slice(route, j + 1, q) ELSE <<>>,
                      var |-> Slice(route, c + 1, k)]

\* _pattern.finditer(route): the non-overlapping matches, scanning left to right
RECURSIVE finditer(_, _)
finditer(route, i) ==
    IF i > Len(route) THEN <<>>
    ELSE LET m == _pattern(route, i)
         IN  IF m.ok THEN <<m>> \o finditer(route, m.end) ELSE finditer(route, i + 1)

(***************************************************************************)
(* _CONVERTER_REGEX: converter name -> regex fragment.  A fragment is      *)
(* named by its regex text; FragmentEnds gives its meaning.                *)
(***************************************************************************)
_CONVERTER_REGEX ==
    [n \in {<<"s", "t", "r", "i", "n", "g">>, <<"p", "a", "t", "h">>, <<"i", "n", "t">>, <<"f", "l", "o", "a", "t">>, <<"u", "u", "i", "d">>} |->
        CASE n = <<"s", "t", "r", "i", "n", "g">> -> "[^/]+"
          [] n = <<"p", "a", "t", "h">>   -> ".+"
          [] n = <<"i", "n", "t">>    -> "\\d+"
          [] n = <<"f", "l", "o", "a", "t">>  -> "\\d+(?:\\.\\d+)?"
          [] n = <<"u", "u", "i", "d">>   -> "uuid"]

\* widths of the hexadecimal blocks of the uuid fragment: 8-4-4-4-12
UuidBlocks == <<8, 4, 4, 4, 12>>

\* end position of the uuid fragment matched at pos, 0 if it does not match
RECURSIVE UuidEnd(_, _, _)
UuidEnd(s, pos, b) ==
    IF b > Len(UuidBlocks) THEN pos
    ELSE LET e == pos + UuidBlocks[b]
         IN  IF /\ e - 1 <= Len(s)
                /\ \A k \in pos..(e - 1) : s[k] \in HexDigits
                /\ b = Len(UuidBlocks) \/ (e <= Len(s) /\ s[e] = "-")
             THEN IF b = Len(UuidBlocks) THEN e ELSE UuidEnd(s, e + 1, b + 1)
             ELSE 0

\* concatenation of a sequence of sequences
RECURSIVE Flatten(_)
Flatten(ss) == IF ss = <<>> THEN <<>> ELSE Head(ss) \o Flatten(Tail(ss))

\* The end positions at which a fragment can stop when matched at pos, in the
\* order the backtracking matcher tries them (greedy: longest first;
\* alternation: leftmost alternative first).
FragmentEnds(frag, choices, s, pos) ==
    CASE frag = "[^/]+" -> Descending(RunEnd(s, pos, "[^/]"), pos + 1)
      [] frag = ".+"    -> Descending(RunEnd(s, pos, "."), pos + 1)
      [] frag = "\\d+"  -> Descending(RunEnd(s, pos, "\\d"), pos + 1)
      [] frag = "\\d+(?:\\.\\d+)?" ->
            LET ints == Descending(RunEnd(s, pos, "\\d"), pos + 1)
                WithFraction(e) ==
                    IF e <= Len(s) /\ s[e] = "."
                    THEN Descending(RunEnd(s, e + 1, "\\d"), e + 2)
                    ELSE <<>>
            IN  Flatten([n \in 1..Len(ints) |-> WithFraction(ints[n]) \o <<ints[n]>>])
      [] frag = "uuid"  -> IF UuidEnd(s, pos, 1) = 0 THEN <<>> ELSE <<UuidEnd(s, pos, 1)>>
      [] frag = "any"   ->
            Flatten([n \in 1..Len(choices) |->
                        IF StartsWithAt(s, choices[n], pos)
                        THEN <<pos + Len(choices[n])>> ELSE <<>>])

(***************************************************************************)
(* _compile_route_to_regex: the compiled pattern is the sequence of its    *)
(* parts between "^" and "$": escaped literal text, matched character for  *)
(* character, and named groups.  err names the exception the compilation   *)
(* raises, "none" if it returns.                                           *)
(***************************************************************************)
Literal(text) == [t |-> "lit", s |-> text, var |-> <<>>, frag |-> "", choices |-> <<>>]

Group(var, frag, choices) == [t |-> "grp", s |-> <<>>, var |-> var, frag |-> frag, choices |-> choices]

\* ConverterExpr with a converter table lookup that defaults to the path fragment
ConverterExpr_default_path(m) ==
    LET conv == IF m.hasconv THEN m.conv ELSE <<"s", "t", "r", "i", "n", "g">>
    IN  IF conv = <<"a", "n", "y">>
        THEN Group(m.var, "any", Split(m.args, ","))
        ELSE Group(m.var,
                   IF conv \in DOMAIN _CONVERTER_REGEX
                   THEN _CONVERTER_REGEX[conv] ELSE _CONVERTER_REGEX[<<"p", "a", "t", "h">>],
                   <<>>)

\* expr of one placeholder: the fragment of its converter
ConverterExpr(m) ==
    LET conv == IF m.hasconv THEN m.conv ELSE <<"s", "t", "r", "i", "n", "g">>
    IN  IF conv = <<"a", "n", "y">>
        THEN Group(m.var, "any", Split(m.args, ","))
        ELSE Group(m.var,
                   IF conv \in DOMAIN _CONVERTER_REGEX
                   THEN _CONVERTER_REGEX[conv] ELSE _CONVERTER_REGEX[<<"s", "t", "r", "i", "n", "g">>],
                   <<>>)

\* args.split(',') on args = None raises AttributeError
SplitsNone(m) == m.hasconv /\ m.conv = <<"a", "n", "y">> /\ ~m.hasargs

\* re.compile rejects a group name that is not an identifier, and a group
\* name used twice
BadGroupName(var) == var[1] \in Digits

\* the parts of the pattern for the placeholders ms of route: the body of the
\* loop and the trailing literal text
Parts(route, ms) ==
    LET pos(n) == IF n = 1 THEN 1 ELSE ms[n - 1].end
    IN  Flatten([n \in 1..Len(ms) |->
                    <<Literal(Slice(route, pos(n), ms[n].start)), ConverterExpr(ms[n])>>])
        \o <<Literal(Slice(route, pos(Len(ms) + 1), Len(route) + 1))>>

\* the exception that compiling the placeholders ms raises, "none" if none
CompileError(ms) ==
    IF \E n \in 1..Len(ms) : SplitsNone(ms[n])
    THEN "AttributeError"
    ELSE IF \/ \E n \in 1..Len(ms) : BadGroupName(ms[n].var)
            \/ \E n, k \in 1..Len(ms) : n # k /\ ms[n].var = ms[k].var
    THEN "re.error"
    ELSE "none"

Compiled(route, ms, err) == [err |-> err, parts |-> IF err = "none" THEN Parts(route, ms) ELSE <<>>]

CompiledFrom(route, ms) == Compiled(route, ms, CompileError(ms))

_compile_route_to_regex(route) == CompiledFrom(route, finditer(route, 1))

\* "$" without re.MULTILINE: at the end, or just before a newline that ends the string
AtDollar(s, pos) == pos = Len(s) + 1 \/ (pos = Len(s) /\ s[pos] = "\n")

NoMatch == [ok |-> FALSE, groups |-> <<>>]

\* regex.match(url_path): the first way, in the matcher's backtracking order, to
\* match parts[k..] from pos up to "$"; groups are the (name, text) pairs of
\* groupdict() in group order
RECURSIVE MatchParts(_, _, _, _), TryEnds(_, _, _, _, _, _)
MatchParts(parts, k, s, pos) ==
    IF k > Len(parts)
    THEN IF AtDollar(s, pos) THEN [ok |-> TRUE, groups |-> <<>>] ELSE NoMatch
    ELSE IF parts[k].t = "lit"
    THEN IF StartsWithAt(s, parts[k].s, pos)
         THEN MatchParts(parts, k + 1, s, pos + Len(parts[k].s))
         ELSE NoMatch
    ELSE TryEnds(parts, k, s, pos, FragmentEnds(parts[k].frag, parts[k].choices, s, pos), 1)

TryEnds(parts, k, s, pos, ends, n) ==
    IF n > Len(ends) THEN NoMatch
    ELSE LET r == MatchParts(parts, k + 1, s, ends[n])
         IN  IF r.ok
             THEN [ok |-> TRUE,
                   groups |-> <<[name |-> parts[k].var, value |-> Slice(s, pos, ends[n])]>> \o r.groups]
             ELSE TryEnds(parts, k, s, pos, ends, n + 1)

\* match_flask_route: raised names the exception that escapes ("none" if it
\* returns); matched is "res is not None"; groups is the returned dict
Groupdict(regex, m) ==
    IF regex.err # "none"
    THEN [raised |-> regex.err, matched |-> FALSE, groups |-> <<>>]
    ELSE [raised |-> "none", matched |-> m.ok, groups |-> IF m.ok THEN m.groups ELSE <<>>]

MatchRegex(regex, url_path) == Groupdict(regex, MatchParts(regex.parts, 1, url_path, 1))

match_flask_route(route_pattern, url_path) ==
    MatchRegex(_compile_route_to_regex(route_pattern), url_path)

(***************************************************************************)
(* get_content_type.  mime_types lists the entries of the table in the     *)
(* order of the dict literal, which is the order mime_types.items()        *)
(* iterates in; the last entry is the empty extension.                     *)
(***************************************************************************)
mime_types ==
    <<
       [ext |-> <<".", "t", "x", "t">>, mimetype |-> "text/plain"],
       [ext |-> <<".", "h", "t", "m">>, mimetype |-> "text/html"],
       [ext |-> <<".", "h", "t", "m", "l">>, mimetype |-> "text/html"],
       [ext |-> <<".", "c", "s", "s">>, mimetype |-> "text/css"],
       [ext |-> <<".", "c", "s", "v">>, mimetype |-> "text/csv"],
       [ext |-> <<".", "m", "d">>, mimetype |-> "text/markdown"],
       [ext |-> <<".", "r", "t", "f">>, mimetype |-> "application/rtf"],
       [ext |-> <<".", "j", "s">>, mimetype |-> "application/javascript"],
       [ext |-> <<".", "m", "j", "s">>, mimetype |-> "application/javascript"],
       [ext |-> <<".", "j", "s", "o", "n">>, mimetype |-> "application/json"],
       [ext |-> <<".", "x", "m", "l">>, mimetype |-> "application/xml"],
       [ext |-> <<".", "y", "a", "m", "l">>, mimetype |-> "application/x-yaml"],
       [ext |-> <<".", "y", "m", "l">>, mimetype |-> "application/x-yaml"],
       [ext |-> <<".", "p", "n", "g">>, mimetype |-> "image/png"],
       [ext |-> <<".", "j", "p", "g">>, mimetype |-> "image/jpeg"],
       [ext |-> <<".", "j", "p", "e", "g">>, mimetype |-> "image/jpeg"],
       [ext |-> <<".", "g", "i", "f">>, mimetype |-> "image/gif"],
       [ext |-> <<".", "b", "m", "p">>, mimetype |-> "image/bmp"],
       [ext |-> <<".", "w", "e", "b", "p">>, mimetype |-> "image/webp"],
       [ext |-> <<".", "s", "v", "g">>, mimetype |-> "image/svg+xml"],
       [ext |-> <<".", "i", "c", "o">>, mimetype |-> "image/vnd.microsoft.icon"],
       [ext |-> <<".", "t", "i", "f", "f">>, mimetype |-> "image/tiff"],
       [ext |-> <<".", "m", "p", "3">>, mimetype |-> "audio/mpeg"],
       [ext |-> <<".", "w", "a", "v">>, mimetype |-> "audio/wav"],
       [ext |-> <<".", "o", "g", "g">>, mimetype |-> "audio/ogg"],
       [ext |-> <<".", "f", "l", "a", "c">>, mimetype |-> "audio/flac"],
       [ext |-> <<".", "a", "a", "c">>, mimetype |-> "audio/aac"],
       [ext |-> <<".", "m", "p", "4">>, mimetype |-> "video/mp4"],
       [ext |-> <<".", "m", "o", "v">>, mimetype |-> "video/quicktime"],
       [ext |-> <<".", "a", "v", "i">>, mimetype |-> "video/x-msvideo"],
       [ext |-> <<".", "w", "m", "v">>, mimetype |-> "video/x-ms-wmv"],
       [ext |-> <<".", "w", "e", "b", "m">>, mimetype |-> "video/webm"],
       [ext |-> <<".", "m", "p", "e", "g">>, mimetype |-> "video/mpeg"],
       [ext |-> <<".", "m", "k", "v">>, mimetype |-> "video/x-matroska"],
       [ext |-> <<".", "w", "o", "f", "f">>, mimetype |-> "font/woff"],
       [ext |-> <<".", "w", "o", "f", "f", "2">>, mimetype |-> "font/woff2"],
       [ext |-> <<".", "t", "t", "f">>, mimetype |-> "font/ttf"],
       [ext |-> <<".", "o", "t", "f">>, mimetype |-> "font/otf"],
       [ext |-> <<".", "e", "o", "t">>, mimetype |-> "application/vnd.ms-fontobject"],
       [ext |-> <<".", "z", "i", "p">>, mimetype |-> "application/zip"],
       [ext |-> <<".", "t", "a", "r">>, mimetype |-> "application/x-tar"],
       [ext |-> <<".", "g", "z">>, mimetype |-> "application/gzip"],
       [ext |-> <<".", "r", "a", "r">>, mimetype |-> "application/vnd.rar"],
       [ext |-> <<".", "7", "z">>, mimetype |-> "application/x-7z-compressed"],
       [ext |-> <<".", "p", "d", "f">>, mimetype |-> "application/pdf"],
       [ext |-> <<".", "d", "o", "c">>, mimetype |-> "application/msword"],
       [ext |-> <<".", "d", "o", "c", "x">>, mimetype |-> "application/vnd.openxmlformats-officedocument.wordprocessingml.document"],
       [ext |-> <<".", "x", "l", "s">>, mimetype |-> "application/vnd.ms-excel"],
       [ext |-> <<".", "x", "l", "s", "x">>, mimetype |-> "application/vnd.openxmlformats-officedocument.spreadsheetml.sheet"],
       [ext |-> <<".", "p", "p", "t">>, mimetype |-> "application/vnd.ms-powerpoint"],
       [ext |-> <<".", "p", "p", "t", "x">>, mimetype |-> "application/vnd.openxmlformats-officedocument.presentationml.presentation"],
       [ext |-> <<>>, mimetype |-> "application/octet-stream"]
    >>

\* str.lower() on ASCII text
LowerChar(c) ==
    IF \E i \in 1..Len(UpperLetters) : UpperLetters[i] = c
    THEN LowerLetters[CHOOSE i \in 1..Len(UpperLetters) : UpperLetters[i] = c]
    ELSE c

lower(s) == [i \in 1..Len(s) |-> LowerChar(s[i])]

\* the for loop over items: the mimetype of the first entry whose ext ends the path
RECURSIVE FirstEndswith(_, _, _)
FirstEndswith(path, items, n) ==
    IF n > Len(items) THEN "application/octet-stream"
    ELSE IF EndsWith(path, items[n].ext) THEN items[n].mimetype
    ELSE FirstEndswith(path, items, n + 1)

\* get_content_type without the lower-casing of the path
get_content_type_case_sensitive(path, items) == FirstEndswith(path, items, 1)

\* get_content_type, with the iteration order of mime_types.items() as items
get_content_type(path, items) == FirstEndswith(lower(path), items, 1)

(***************************************************************************)
(* Paths.  pathlib and os.path work on the text of a path; a path text is  *)
(* split at "/" into segments.                                             *)
(***************************************************************************)
\* the working directory of the server process, the '.' of send_file
cwd == <<<<"s", "r", "v">>>>

SelectSegs(segs) == SelectSeq(segs, LAMBDA g : g # <<>> /\ g # <<".">>)

IsAbsText(s) == Len(s) > 0 /\ s[1] = "/"

\* "/".join(segs)
RECURSIVE JoinSegs(_)
JoinSegs(segs) ==
    IF segs = <<>> THEN <<>>
    ELSE IF Len(segs) = 1 THEN segs[1]
    ELSE segs[1] \o <<"/">> \o JoinSegs(Tail(segs))

\* str(Path(base) / other): an absolute other replaces base; empty and "."
\* segments are dropped, ".." segments are kept
PathDiv(base, other) ==
    LET segs == IF IsAbsText(other) THEN SelectSegs(Split(other, "/"))
                ELSE SelectSegs(Split(base, "/")) \o SelectSegs(Split(other, "/"))
        \* exactly two leading slashes are kept as the root "//"
        root == IF Len(other) >= 2 /\ other[2] = "/" /\ (Len(other) = 2 \/ other[3] # "/")
                THEN <<"/", "/">> ELSE <<"/">>
    IN  IF IsAbsText(other) THEN root \o JoinSegs(segs)
        ELSE IF segs = <<>> THEN <<".">> ELSE JoinSegs(segs)

\* os.path.join(a, p)
join(a, p) == IF IsAbsText(p) THEN p ELSE a \o <<"/">> \o p

\* os.path.normpath on the segments of an absolute path: ".." removes the
\* segment before it and is dropped at the root
RECURSIVE NormSegs(_, _)
NormSegs(done, rest) ==
    IF rest = <<>> THEN done
    ELSE IF Head(rest) = <<".", ".">>
    THEN NormSegs(IF done = <<>> THEN <<>> ELSE SubSeq(done, 1, Len(done) - 1), Tail(rest))
    ELSE NormSegs(Append(done, Head(rest)), Tail(rest))

\* os.path.abspath(p): the segments of the normalised absolute path
abspath(p) ==
    NormSegs(<<>>, IF IsAbsText(p) THEN SelectSegs(Split(p, "/"))
                   ELSE cwd \o SelectSegs(Split(p, "/")))

\* the text of an absolute path given by its segments
PathText(segs) == <<"/">> \o JoinSegs(segs)

IsPrefix(a, b) == Len(a) <= Len(b) /\ SubSeq(b, 1, Len(a)) = a

(***************************************************************************)
(* The filesystem: files maps the absolute path of each regular file to    *)
(* its content and metadata; every proper prefix of a file's path is a     *)
(* directory.  open(filepath, 'rb') returns the file or raises.            *)
(***************************************************************************)
open(filepath, files) ==
    IF filepath \in DOMAIN files THEN [err |-> "none", file |-> files[filepath]]
    ELSE IF \E f \in DOMAIN files : IsPrefix(filepath, f)
    THEN [err |-> "IsADirectoryError"]
    ELSE IF \E f \in DOMAIN files : IsPrefix(f, filepath)
    THEN [err |-> "NotADirectoryError"]
    ELSE [err |-> "FileNotFoundError"]

(***************************************************************************)
(* send_file: what it writes to the connection of requestHandler["h"],     *)
(* the file it read, and the exception that escapes it.  The headers of a  *)
(* response are those send_file sends with send_header.                    *)
(***************************************************************************)
Response(status, headers, body) == [status |-> status, headers |-> headers, body |-> body]

\* the try block and the except clause, for the outcome o of open(filepath, 'rb')
TryOpen(filepath, o) ==
    IF o.err = "none"
    THEN [raised |-> "none",
          written |-> <<Response(200,
                                 <<[name |-> "Content-Type",
                                    value |-> get_content_type(PathText(filepath), mime_types)]>>,
                                 o.file.data)>>,
          read |-> <<filepath>>]
    ELSE IF o.err = "FileNotFoundError"
    THEN [raised |-> "none", written |-> <<Response(404, <<>>, "")>>, read |-> <<>>]
    ELSE [raised |-> o.err, written |-> <<>>, read |-> <<>>]

SendFileAt(filepath, files) == TryOpen(filepath, open(filepath, files))

send_file(path, files) == SendFileAt(abspath(join(<<".">>, path)), files)

(***************************************************************************)
(* The handlers of the program, called with the groups of the match as     *)
(* keyword arguments.  Any other                                           *)
(* registered callable (Other) takes whatever keywords it is given and     *)
(* writes nothing.                                                         *)
(***************************************************************************)
Names(groups) == [i \in 1..Len(groups) |-> groups[i].name]

Returned == [raised |-> "none", written |-> <<>>, read |-> <<>>]

Raised(e) == [raised |-> e, written |-> <<>>, read |-> <<>>]

sendindex(res, files) ==
    IF Len(res) # 0 THEN Raised("TypeError") ELSE send_file(<<"i", "n", "d", "e", "x", ".", "h", "t", "m", "l">>, files)

serve_script(res, files) ==
    IF Names(res) # <<<<"r", "e", "q", "u", "e", "s", "t", "e", "d", "_", "p", "a", "t", "h">>>> THEN Raised("TypeError")
    ELSE send_file(PathDiv(<<"j", "s">>, res[1].value), files)

serve_style(res, files) ==
    IF Names(res) # <<<<"r", "e", "q", "u", "e", "s", "t", "e", "d", "_", "p", "a", "t", "h">>>> THEN Raised("TypeError")
    ELSE send_file(PathDiv(<<"c", "s", "s">>, res[1].value), files)

Call(handler, res, files) ==
    CASE handler = "sendindex"    -> sendindex(res, files)
      [] handler = "serve_script" -> serve_script(res, files)
      [] handler = "serve_style"  -> serve_style(res, files)
      [] OTHER                    -> Returned

(***************************************************************************)
(* CustomServer                                                            *)
(***************************************************************************)
\* route(path)(f): self.paths[path] = f.  A dict keeps a key's first position
\* and takes the new value.
route(table, path, f) ==
    IF \E i \in 1..Len(table) : table[i].pattern = path
    THEN [i \in 1..Len(table) |->
            IF table[i].pattern = path THEN [pattern |-> path, handler |-> f] ELSE table[i]]
    ELSE Append(table, [pattern |-> path, handler |-> f])

\* the files the call of a handler read, with the handler that asked for them
ReadBy(handler, c) == [i \in 1..Len(c.read) |-> [handler |-> handler, filepath |-> c.read[i]]]

NoCalls(raised) == [raised |-> raised, calls |-> <<>>, written |-> <<>>, read |-> <<>>]

\* the body of the loop after a match with groups res: c is the outcome of
\* handler(**res), rest the outcome of the iterations that follow it
Invoked(item, res, c, rest) ==
    IF c.raised # "none"
    THEN [raised |-> c.raised,
          calls |-> <<[pattern |-> item.pattern, handler |-> item.handler, res |-> res]>>,
          written |-> c.written, read |-> ReadBy(item.handler, c)]
    ELSE [raised |-> rest.raised,
          calls |-> <<[pattern |-> item.pattern, handler |-> item.handler, res |-> res]>>
                    \o rest.calls,
          written |-> c.written \o rest.written,
          read |-> ReadBy(item.handler, c) \o rest.read]

\* the body of the loop for one item: res is the result of match_flask_route
Iteration(item, res, files, rest) ==
    IF res.raised # "none" THEN NoCalls(res.raised)
    ELSE IF ~res.matched THEN rest
    ELSE Invoked(item, res.groups, Call(item.handler, res.groups, files), rest)

\* handle(path): the loop over self.paths.items() from item n on.  calls are
\* the handlers invoked, in order; the loop ends at the first exception.
RECURSIVE HandleFrom(_, _, _, _)
HandleFrom(table, path, files, n) ==
    IF n > Len(table) THEN NoCalls("none")
    ELSE Iteration(table[n], match_flask_route(table[n].pattern, path), files,
                   HandleFrom(table, path, files, n + 1))

handle(table, path, files) == HandleFrom(table, path, files, 1)

(***************************************************************************)
(* Bounds of the model                                                     *)
(***************************************************************************)
\* number of requests the server receives
NumRequests == 2

\* number of routes registered in the router specification
MaxRoutes == 2

\* longest template and path of the literal-template specification
MaxLiteralLen == 3

\* number of pieces of a template, and longest path, of the converter specification
MaxPieces == 2

MaxUrlLen == 3

\* all sequences over S of length at most n
RECURSIVE SeqsUpTo(_, _)
SeqsUpTo(S, n) ==
    IF n = 0 THEN {<<>>}
    ELSE LET shorter == SeqsUpTo(S, n - 1)
         IN  shorter \cup {Append(s, c) : s \in shorter, c \in S}

(***************************************************************************)
(* State                                                                   *)
(***************************************************************************)
VARIABLES
    paths,           \* CustomServer.paths: the (pattern, handler) items, in dict order
    files,           \* the filesystem
    reqpath,         \* self.path of each request
    pc,              \* where each request is: "new", "handle", "done", "raised"
    requestHandler,  \* requestHandler["h"]: the request whose connection send_file writes to
    out,             \* the responses written to each request's connection
    opened,          \* the files read while each request was handled
    last,            \* router specification: the latest call of handle and its outcome
    m_route,         \* match_flask_route specifications: route_pattern,
    m_path,          \*   url_path
    m_res,           \*   and the result
    ct_order,        \* get_content_type specification: order in which items are iterated,
    ct_path,         \*   path
    ct_res           \*   and the result

vars == <<paths, files, reqpath, pc, requestHandler, out, opened, last,
          m_route, m_path, m_res, ct_order, ct_path, ct_res>>

appVars == <<paths, files, reqpath, pc, requestHandler, out, opened>>

matchVars == <<m_route, m_path, m_res>>

ctVars == <<ct_order, ct_path, ct_res>>

Requests == 1..NumRequests

\* requestHandler = {"h": None}
None == 0

Unset == [raised |-> "unset", matched |-> FALSE, groups |-> <<>>]

NotHandled == [handled |-> FALSE, table |-> <<>>, path |-> <<>>, calls |-> <<>>,
               written |-> <<>>, raised |-> "none"]

\* the state of the variables a specification does not use
AppIdle ==
    /\ paths = <<>>
    /\ files = <<>>
    /\ reqpath = [r \in Requests |-> <<>>]
    /\ pc = [r \in Requests |-> "new"]
    /\ requestHandler = None
    /\ out = [r \in Requests |-> <<>>]
    /\ opened = [r \in Requests |-> <<>>]

MatchIdle == m_route = <<>> /\ m_path = <<>> /\ m_res = Unset

CtIdle == ct_order = <<>> /\ ct_path = <<>> /\ ct_res = "unset"

(***************************************************************************)
(* The program: its routes, and the requests it serves                     *)
(***************************************************************************)
\* the table after the module's decorators have run; of two decorators on one
\* function the lower one registers first
AppRoutes ==
    route(route(route(route(<<>>,
        <<"/", "i", "n", "d", "e", "x", ".", "h", "t", "m", "l">>, "sendindex"),
        <<"/">>, "sendindex"),
        <<"/", "j", "s", "/", "<", "p", "a", "t", "h", ":", "r", "e", "q", "u", "e", "s", "t", "e", "d", "_", "p", "a", "t", "h", ">">>, "serve_script"),
        <<"/", "c", "s", "s", "/", "<", "p", "a", "t", "h", ":", "r", "e", "q", "u", "e", "s", "t", "e", "d", "_", "p", "a", "t", "h", ">">>, "serve_style")

File(data, mtime, size) == [data |-> data, mtime |-> mtime, size |-> size]

IndexFile == <<<<"s", "r", "v">>, <<"i", "n", "d", "e", "x", ".", "h", "t", "m", "l">>>>

\* files that are there in every filesystem considered: one beside js/ and
\* css/ in the working directory, one outside the working directory
BaseFiles ==
    (<<<<"s", "r", "v">>, <<"p">>>> :> File("private", 12, 7))
    @@ (<<<<"p">>>> :> File("passwd", 13, 6))

\* files that are there in some
OptionalFiles ==
    (IndexFile :> File("<html>", 14, 6))
    @@ (<<<<"s", "r", "v">>, <<"j", "s">>, <<"a", ".", "j", "s">>>> :> File("js();", 15, 5))
    @@ (<<<<"s", "r", "v">>, <<"c", "s", "s">>, <<"a", ".", "c", "s", "s">>>> :> File("body{}", 11, 6))

FileSystems ==
    {BaseFiles @@ [f \in some |-> OptionalFiles[f]] : some \in SUBSET DOMAIN OptionalFiles}

\* the filesystems the served requests run on: those with the style sheet
ServedFileSystems == {fs \in FileSystems : <<<<"s", "r", "v">>, <<"c", "s", "s">>, <<"a", ".", "c", "s", "s">>>> \in DOMAIN fs}

\* self.path of a request as http.server parses it from the request line
RequestPaths ==
    { <<"/">>, <<"/", "i", "n", "d", "e", "x", ".", "h", "t", "m", "l">>, <<"/", "j", "s", "/", "a", ".", "j", "s">>, <<"/", "c", "s", "s", "/", "a", ".", "c", "s", "s">>, <<"/", "n", "o", "p", "e">>, <<"/", "j", "s", "/", "z", "z">>,
      <<"/", "j", "s", "/", ".", ".", "/", ".", ".", "/", "p">>, <<"/", "j", "s", "/", "/", "p">>, <<"/", "j", "s", "/", ".", ".">> }

Init ==
    /\ paths = AppRoutes
    /\ files \in ServedFileSystems
    /\ reqpath \in [Requests -> RequestPaths]
    /\ pc = [r \in Requests |-> "new"]
    /\ requestHandler = None
    /\ out = [r \in Requests |-> <<>>]
    /\ opened = [r \in Requests |-> <<>>]
    /\ last = NotHandled
    /\ MatchIdle
    /\ CtIdle

\* CustomServer.run: HTTPServer.serve_forever takes the next request only when
\* the handling of the one before has returned
serve_forever_threaded == TRUE

serve_forever == \A q \in Requests : pc[q] # "handle"

\* RequestHandler.do_GET up to the call of app.handle
do_GET(r) ==
    /\ pc[r] = "new"
    /\ serve_forever
    /\ requestHandler' = r
    /\ pc' = [pc EXCEPT ![r] = "handle"]
    /\ UNCHANGED <<paths, files, reqpath, out, opened, last, matchVars, ctVars>>

\* the effect h of app.handle for request r: every send_file it reached wrote to
\* the connection of requestHandler["h"]
Handled(r, h) ==
    /\ out' = [out EXCEPT ![requestHandler] = @ \o h.written]
    /\ opened' = [opened EXCEPT ![r] = @ \o h.read]
    /\ pc' = [pc EXCEPT ![r] = IF h.raised = "none" THEN "done" ELSE "raised"]

\* app.handle(self.path) in do_GET
app_handle(r) ==
    /\ pc[r] = "handle"
    /\ Handled(r, handle(paths, reqpath[r], files))
    /\ UNCHANGED <<paths, files, reqpath, requestHandler, last, matchVars, ctVars>>

Next == \E r \in Requests : do_GET(r) \/ app_handle(r)

Spec == Init /\ [][Next]_vars

(***************************************************************************)
(* The router: registrations and dispatch on a CustomServer                *)
(***************************************************************************)
RouterTemplates ==
    { <<"/", "<", "p", "a", "t", "h", ":", "a", "n", "y", ">">>, <<"/", "i", "n", "d", "e", "x", ".", "h", "t", "m", "l">>, <<"/", "<", "a", "n", "y", ":", "x", ">">>, <<"/", "<", "x", ">", "/", "<", "x", ">">>, <<"/", "<", "x">>, <<"/", "<", "a", "n", "y", "(", "a", ",", "b", ")", ":", "x", ">">> }

RouterPaths == { <<"/", "i", "n", "d", "e", "x", ".", "h", "t", "m", "l">>, <<"/", "a">>, <<"/", "a", "/", "a">>, <<"/", "<", "x">>, <<>> }

\* callables registered as handlers; they are not handlers of the program
RouterHandlers == {"f", "g"}

InitRouter ==
    /\ AppIdle
    /\ last = NotHandled
    /\ MatchIdle
    /\ CtIdle

\* app.route(path)(f)
Route(path, f) ==
    /\ Len(route(paths, path, f)) <= MaxRoutes
    /\ paths' = route(paths, path, f)
    /\ UNCHANGED <<files, reqpath, pc, requestHandler, out, opened, last, matchVars, ctVars>>

Outcome(table, path, h) ==
    [handled |-> TRUE, table |-> table, path |-> path,
     calls |-> h.calls, written |-> h.written, raised |-> h.raised]

\* app.handle(path)
Handle(path) ==
    /\ last' = Outcome(paths, path, handle(paths, path, files))
    /\ UNCHANGED <<appVars, matchVars, ctVars>>

NextRouter ==
    \/ \E path \in RouterTemplates, f \in RouterHandlers : Route(path, f)
    \/ \E path \in RouterPaths : Handle(path)

SpecRouter == InitRouter /\ [][NextRouter]_vars

(***************************************************************************)
(* Dispatch on the program's routes: app.handle called with a path         *)
(***************************************************************************)
DispatchPaths == RequestPaths \cup {<<>>, <<"/", "j", "s", "/", ".", ".", "/", "p">>, <<"/", "c", "s", "s", "/", ".", ".", "/", "p">>, <<"/", "j", "s", "/", "a", ".", "j", "s", "/", "x">>}

InitDispatch ==
    /\ paths = AppRoutes
    /\ files \in FileSystems
    /\ reqpath = [r \in Requests |-> <<>>]
    /\ pc = [r \in Requests |-> "new"]
    /\ requestHandler = None
    /\ out = [r \in Requests |-> <<>>]
    /\ opened = [r \in Requests |-> <<>>]
    /\ last = NotHandled
    /\ MatchIdle
    /\ CtIdle

NextDispatch == \E path \in DispatchPaths : Handle(path)

SpecDispatch == InitDispatch /\ [][NextDispatch]_vars

(***************************************************************************)
(* match_flask_route as a function of its arguments                        *)
(***************************************************************************)
Match ==
    /\ m_res = Unset
    /\ m_res' = match_flask_route(m_route, m_path)
    /\ UNCHANGED <<appVars, last, m_route, m_path, ctVars>>

\* templates and paths over an alphabet with the placeholder delimiters and newline
LiteralAlphabet == {"/", "a", "<", ">", "\n"}

InitLiteral ==
    /\ AppIdle
    /\ last = NotHandled
    /\ m_route \in SeqsUpTo(LiteralAlphabet, MaxLiteralLen)
    /\ m_path \in SeqsUpTo(LiteralAlphabet, MaxLiteralLen)
    /\ m_res = Unset
    /\ CtIdle

SpecLiteral == InitLiteral /\ [][Match]_vars

\* templates made of literal text and placeholders with and without a known converter
Pieces ==
    { <<"/">>, <<"a">>, <<"<", "x", ">">>, <<"<", "f", "o", "o", ":", "y", ">">>, <<"<", "b", "a", "r", "(", "a", ",", "b", ")", ":", "x", ">">>, <<"<", "s", "t", "r", "i", "n", "g", ":", "x", ">">>, <<"<", "i", "n", "t", ":", "y", ">">>, <<"<", "1", ">">> }

UrlAlphabet == {"/", "a", "1", "\n"}

InitConverter ==
    /\ AppIdle
    /\ last = NotHandled
    /\ m_route \in {Flatten(ps) : ps \in SeqsUpTo(Pieces, MaxPieces)}
    /\ m_path \in SeqsUpTo(UrlAlphabet, MaxUrlLen)
    /\ m_res = Unset
    /\ CtIdle

SpecConverter == InitConverter /\ [][Match]_vars

(***************************************************************************)
(* get_content_type as a function of its argument and of the order in      *)
(* which the items of mime_types are iterated                              *)
(***************************************************************************)
SourceOrder == [i \in 1..Len(mime_types) |-> i]

\* the order with the entry at position i moved to position j
Moved(order, i, j) ==
    LET without == [k \in 1..(Len(order) - 1) |-> IF k < i THEN order[k] ELSE order[k + 1]]
    IN  [k \in 1..Len(order) |->
            IF k < j THEN without[k] ELSE IF k = j THEN order[i] ELSE without[k - 1]]

Items(order) == [k \in 1..Len(order) |-> mime_types[order[k]]]

ContentPaths ==
    { <<"p", "h", "o", "t", "o", ".", "j", "p", "g">>, <<"p", "h", "o", "t", "o", ".", "J", "P", "G">>, <<"/", "s", "r", "v", "/", "i", "n", "d", "e", "x", ".", "h", "t", "m", "l">>, <<"a", ".", "h", "t", "m">>, <<"x", ".", "t", "a", "r", ".", "g", "z">>, <<"l", "i", "b", ".", "m", "j", "s">>,
      <<"R", "E", "A", "D", "M", "E">>, <<>>, <<"a", ".", "j", "p", "g", ".", "b", "a", "k">>, <<"B", ".", "W", "o", "f", "f", "2">> }

InitMime ==
    /\ AppIdle
    /\ last = NotHandled
    /\ MatchIdle
    /\ ct_order = SourceOrder
    /\ ct_path \in ContentPaths
    /\ ct_res = "unset"

\* another iteration order of the same items
Reorder(i, j) ==
    /\ ct_order = SourceOrder
    /\ ct_res = "unset"
    /\ i # j
    /\ ct_order' = Moved(ct_order, i, j)
    /\ UNCHANGED <<appVars, last, matchVars, ct_path, ct_res>>

GetContentType ==
    /\ ct_res = "unset"
    /\ ct_res' = get_content_type(ct_path, Items(ct_order))
    /\ UNCHANGED <<appVars, last, matchVars, ct_order, ct_path>>

NextMime ==
    \/ \E i, j \in 1..Len(mime_types) : Reorder(i, j)
    \/ GetContentType

SpecMime == InitMime /\ [][NextMime]_vars

(***************************************************************************)
(* Properties                                                              *)
(***************************************************************************)
Finished(r) == pc[r] \in {"done", "raised"}

\* the positions of the routes of table whose template matches path
Matching(table, path) ==
    {i \in 1..Len(table) : match_flask_route(table[i].pattern, path).matched}

Min(S) == CHOOSE x \in S : \A y \in S : x <= y

\* C1: a call of handle that returns has invoked the handler of the
\* first-registered route whose template matches the path, once, and no other
\* handler; it has invoked none if no template matches.
C1_OnlyFirstMatchInvoked ==
    (last.handled /\ last.raised = "none") =>
        IF Matching(last.table, last.path) = {}
        THEN last.calls = <<>>
        ELSE /\ Len(last.calls) = 1
             /\ last.calls[1].pattern = last.table[Min(Matching(last.table, last.path))].pattern
             /\ last.calls[1].handler = last.table[Min(Matching(last.table, last.path))].handler

\* C2: every template in the route table compiles (a template that does not
\* compile is rejected by route and not added), and handle never raises the
\* error of a failed compilation.
C2_CompilationFailsAtRegistration ==
    /\ \A i \in 1..Len(paths) : _compile_route_to_regex(paths[i].pattern).err = "none"
    /\ last.raised \notin {"AttributeError", "re.error"}

\* C3: for a template without placeholder, match_flask_route reports a match
\* if and only if the path equals the template character for character.
C3_LiteralMatchesIffEqual ==
    (m_res # Unset /\ finditer(m_route, 1) = <<>>) =>
        /\ m_res.raised = "none"
        /\ m_res.matched <=> (m_path = m_route)

\* the weak validator W/"<mtime>-<size>" of a file
ETag(file) == <<"W/", file.mtime, file.size>>

\* C4: every 200 response written by send_file carries an ETag header whose
\* value is the weak validator of the modification time and size of the file
\* whose content is the body.
C4_ETagOnEvery200 ==
    \A r \in Requests : \A i \in 1..Len(out[r]) :
        out[r][i].status = 200 =>
            \E f \in DOMAIN files, k \in 1..Len(out[r][i].headers) :
                /\ out[r][i].body = files[f].data
                /\ out[r][i].headers[k].name = "ETag"
                /\ out[r][i].headers[k].value = ETag(files[f])

\* C5: dispatch of the path "/" or "" writes one response: status 200 with the
\* content of index.html if that file exists, and 404 if it does not.
C5_RootServesIndex ==
    (last.handled /\ last.path \in {<<"/">>, <<>>}) =>
        /\ Len(last.written) = 1
        /\ IF IndexFile \in DOMAIN files
           THEN last.written[1].status = 200 /\ last.written[1].body = files[IndexFile].data
           ELSE last.written[1].status = 404

KnownConverters == DOMAIN _CONVERTER_REGEX \cup {<<"a", "n", "y">>}

Lenient(m) == ~m.hasconv \/ m.conv \notin KnownConverters

AsString(template, m) ==
    Slice(template, 1, m.start) \o <<"<", "s", "t", "r", "i", "n", "g", ":">> \o m.var \o <<">">>
        \o Slice(template, m.end, Len(template) + 1)

SuffixTypes(path) ==
    {mime_types[i].mimetype : i \in {k \in 1..Len(mime_types) :
        mime_types[k].ext # <<>> /\ EndsWith(lower(path), mime_types[k].ext)}}

IsTypeOfSuffix(res, path) ==
    IF SuffixTypes(path) = {} THEN res = "application/octet-stream" ELSE SuffixTypes(path) = {res}

\* the fallback item '' is iterated last
FallbackLast == mime_types[ct_order[Len(ct_order)]].ext = <<>>

\* C7 as stated: for every iteration order of the items of the table, the
\* result is the type of the recognised extension that ends the lower-cased
\* path, and application/octet-stream if there is none.
C7_AnyOrder ==
    ct_res # "unset" => IsTypeOfSuffix(ct_res, ct_path)

\* C7 amended: for every iteration order of the items of the table that keeps the
\* item of the empty extension last, the result is the type of the recognised
\* extension that ends the lower-cased path, and application/octet-stream if
\* there is none.
C7_AnyOrderWithFallbackLast ==
    (ct_res # "unset" /\ FallbackLast) => IsTypeOfSuffix(ct_res, ct_path)

\* an upper-case extension was resolved under an order that is not the table's
C7_Witness ==
    /\ ct_path = <<"p", "h", "o", "t", "o", ".", "J", "P", "G">>
    /\ ct_res = "image/jpeg"
    /\ FallbackLast
    /\ ct_order # SourceOrder

\* C8 as stated: handling a request changes no state that requests share (and
\* so each request's response is its own).
C8_NoSharedMutableState == [][requestHandler' = requestHandler]_vars

\* C8 amended: handling a request writes requestHandler["h"], which all requests
\* share; the server handles one request at a time, and so what is written to
\* the connection of a request is, once it is handled, what handle writes for
\* its path alone, and nothing before.
C8_ResponseAsIfAlone ==
    \A r \in Requests :
        out[r] = IF Finished(r) THEN handle(AppRoutes, reqpath[r], files).written ELSE <<>>

\* two requests with different responses have both been handled
C8_Witness ==
    \E r, q \in Requests :
        /\ Finished(r) /\ Finished(q)
        /\ out[r] # <<>> /\ out[q] # <<>>
        /\ out[r] # out[q]

\* C9: a request that has been handled has been answered with exactly one
\* response, of status 200 or 404.
C9_ExactlyOneResponse ==
    \A r \in Requests :
        Finished(r) => Len(out[r]) = 1 /\ out[r][1].status \in {200, 404}

\* C10: every file read for a request lies under the working directory, and
\* under its js/ (css/) subdirectory if serve_script (serve_style) read it.
C10_FilesInsideDocumentRoot ==
    \A r \in Requests : \A i \in 1..Len(opened[r]) :
        /\ IsPrefix(cwd, opened[r][i].filepath)
        /\ opened[r][i].handler = "serve_script" => IsPrefix(cwd \o <<<<"j", "s">>>>, opened[r][i].filepath)
        /\ opened[r][i].handler = "serve_style" => IsPrefix(cwd \o <<<<"c", "s", "s">>>>, opened[r][i].filepath)
====
